---- MODULE Spec2Model ----
(***************************************************************************)
(* A model of fen-parser.js: the FEN parser parseFen, the board renderer   *)
(* generateBoardHtml and the page's submit handler handleFenSubmit.        *)
(*                                                                         *)
(* A JavaScript string is a sequence of characters, a character a string   *)
(* of length one, or "U+" and its code point when TLA+ cannot write it.  A *)
(* JavaScript value is a record whose field "type" tells what it is:       *)
(* Str(s) is a string, Null is null, Arr(rows) an array, a parse result is *)
(* an "object" record, and JsOther(t, s) is a value of another type whose  *)
(* string conversion would be s.                                           *)
(***************************************************************************)
EXTENDS Integers, Sequences, FiniteSets, TLC

\* A call of parseFen: its argument, what it returned, and a second call on
\* an input made from the first (pc tells which calls were made).
VARIABLES fenString, result, pc, second, result2

\* The page: the text of the input box, the output element's classes and
\* content, the board container's content, whether DOMContentLoaded has run,
\* and two history variables: the text the last submission read and whether
\* a board was ever shown.
VARIABLES inputValue, outputClasses, outputContent, boardContainer,
          loaded, submitted, shownBoard

parserVars == <<fenString, result, pc, second, result2>>
pageVars == <<inputValue, outputClasses, outputContent, boardContainer,
              loaded, submitted, shownBoard>>
vars == <<parserVars, pageVars>>

(***************************************************************************)
(* JavaScript values                                                       *)
(***************************************************************************)
Null == [type |-> "null"]
Str(s) == [type |-> "string", chars |-> s]
Arr(rows) == [type |-> "array", rows |-> rows]
JsOther(t, s) == [type |-> t, chars |-> s]

\* typeof v: null and arrays are objects.
TypeOf(v) ==
    IF v.type \in {"null", "array", "object"} THEN "object" ELSE v.type

\* A board cell that holds no piece (null in the rank array).
NullCell == "null"

(***************************************************************************)
(* The numbers of the program                                              *)
(***************************************************************************)
NumFields == 6
NumRanks == 8
RankWidth == 8
Radix == 10

(***************************************************************************)
(* Characters                                                              *)
(***************************************************************************)
\* The characters \s matches, trim() strips and parseInt skips: tab, line
\* feed, vertical tab, form feed, carriage return, space, no-break space,
\* the other space separators, the line and paragraph separators and the
\* byte order mark.
WhiteSpace ==
    {"\t", "\n", "U+000B", "\f", "\r", " ", "U+00A0", "U+1680", "U+2000",
     "U+2001", "U+2002", "U+2003", "U+2004", "U+2005", "U+2006", "U+2007",
     "U+2008", "U+2009", "U+200A", "U+2028", "U+2029", "U+202F", "U+205F",
     "U+3000", "U+FEFF"}

\* /[1-8]/
EmptyDigits == {"1", "2", "3", "4", "5", "6", "7", "8"}

\* A letter class that lacks the white king.
PieceLettersNoKing ==
    {"p", "n", "b", "r", "q", "k", "P", "N", "B", "R", "Q"}

\* /[pnbrqkPNBRQK]/
PieceLetters == {"p", "n", "b", "r", "q", "k", "P", "N", "B", "R", "Q", "K"}

DecimalDigits == {"0", "1", "2", "3", "4", "5", "6", "7", "8", "9"}

\* The value of a decimal digit character.
DigitValue(c) ==
    CASE c = "0" -> 0 [] c = "1" -> 1 [] c = "2" -> 2 [] c = "3" -> 3
      [] c = "4" -> 4 [] c = "5" -> 5 [] c = "6" -> 6 [] c = "7" -> 7
      [] c = "8" -> 8 [] c = "9" -> 9

\* The character of a digit value.
DigitChar(d) ==
    CASE d = 0 -> "0" [] d = 1 -> "1" [] d = 2 -> "2" [] d = 3 -> "3"
      [] d = 4 -> "4" [] d = 5 -> "5" [] d = 6 -> "6" [] d = 7 -> "7"
      [] d = 8 -> "8" [] d = 9 -> "9"

(***************************************************************************)
(* String.prototype.trim and String.prototype.split                        *)
(***************************************************************************)
Min(S) == CHOOSE x \in S : \A y \in S : x <= y
Max(S) == CHOOSE x \in S : \A y \in S : x >= y

\* The positions of s from `from` on that hold whitespace, and those that
\* hold something else.
WhiteAt(s, from) == {i \in from..Len(s) : s[i] \in WhiteSpace}
BlackAt(s, from) == {i \in from..Len(s) : s[i] \notin WhiteSpace}

\* s.trim(): s from its first to its last character that is no whitespace.
Trim(s) ==
    IF BlackAt(s, 1) = {} THEN <<>>
    ELSE SubSeq(s, Min(BlackAt(s, 1)), Max(BlackAt(s, 1)))

\* s.split(/\s+/): the pieces of s between the matches of \s+, each match a
\* maximal run of whitespace.  `from` is where the piece being read starts.
\* A string without whitespace (the empty one included) is one piece.
RECURSIVE SplitWsFrom(_, _, _)
SplitWsFrom(s, from, acc) ==
    IF WhiteAt(s, from) = {} THEN Append(acc, SubSeq(s, from, Len(s)))
    ELSE LET start == Min(WhiteAt(s, from))
             end == IF BlackAt(s, start) = {} THEN Len(s) + 1
                    ELSE Min(BlackAt(s, start))
         IN  SplitWsFrom(s, end, Append(acc, SubSeq(s, from, start - 1)))

SplitWhitespace(s) == SplitWsFrom(s, 1, <<>>)

\* s.split(sep) for a one-character separator: the pieces between the
\* occurrences of sep.
RECURSIVE SplitCharFrom(_, _, _, _)
SplitCharFrom(s, sep, from, acc) ==
    LET at == {i \in from..Len(s) : s[i] = sep} IN
    IF at = {} THEN Append(acc, SubSeq(s, from, Len(s)))
    ELSE SplitCharFrom(s, sep, Min(at) + 1,
                       Append(acc, SubSeq(s, from, Min(at) - 1)))

SplitChar(s, sep) == SplitCharFrom(s, sep, 1, <<>>)

\* fenString.trim().split(/\s+/)
Fields(s) == SplitWhitespace(Trim(s))

(***************************************************************************)
(* Natural numbers beyond 32 bits                                          *)
(*                                                                         *)
(* A natural number is the sequence of its decimal digits, most            *)
(* significant first and without leading zeros (zero is <<0>>).  Halving   *)
(* and doubling, and dividing and multiplying by 2^9, are done digit by    *)
(* digit: as 10^9 is a multiple of 2^9, the remainder carried into a digit *)
(* of the quotient depends on the 9 digits before it only, and the carry   *)
(* into a digit of the product on the 9 digits after it only.              *)
(***************************************************************************)
\* The digit at position i, 0 outside the number.
Dg(d, i) == IF i \in 1..Len(d) THEN d[i] ELSE 0

StripLeadingZeros(d) ==
    LET nonzero == {i \in 1..Len(d) : d[i] # 0} IN
    IF nonzero = {} THEN <<0>> ELSE SubSeq(d, Min(nonzero), Len(d))

Less(a, b) ==
    \/ Len(a) < Len(b)
    \/ /\ Len(a) = Len(b)
       /\ \E i \in 1..Len(a) :
             a[i] < b[i] /\ \A j \in 1..(i - 1) : a[j] = b[j]

IsOdd(d) == d[Len(d)] % 2 = 1

Half(d) ==
    StripLeadingZeros(
        [i \in 1..Len(d) |-> (10 * (Dg(d, i - 1) % 2) + d[i]) \div 2])

Double(d) ==
    StripLeadingZeros(
        [i \in 1..(Len(d) + 1) |->
            (2 * Dg(d, i - 1) + (IF Dg(d, i) >= 5 THEN 1 ELSE 0)) % 10])

\* The number the 9 digits before position i write.
Above9(d, i) ==
    Dg(d, i - 1) + 10 * Dg(d, i - 2) + 100 * Dg(d, i - 3)
    + 1000 * Dg(d, i - 4) + 10000 * Dg(d, i - 5) + 100000 * Dg(d, i - 6)
    + 1000000 * Dg(d, i - 7) + 10000000 * Dg(d, i - 8)
    + 100000000 * Dg(d, i - 9)

\* The number the 9 digits after position i write.
Below9(d, i) ==
    Dg(d, i + 9) + 10 * Dg(d, i + 8) + 100 * Dg(d, i + 7)
    + 1000 * Dg(d, i + 6) + 10000 * Dg(d, i + 5) + 100000 * Dg(d, i + 4)
    + 1000000 * Dg(d, i + 3) + 10000000 * Dg(d, i + 2)
    + 100000000 * Dg(d, i + 1)

\* d \div 2^9 and d % 2^9.
Div512(d) ==
    StripLeadingZeros(
        [i \in 1..Len(d) |-> (10 * (Above9(d, i) % 512) + d[i]) \div 512])
Mod512(d) == Above9(d, Len(d) + 1) % 512

\* d * 2^9; 10^9 \div 2^9 = 1953125.
Mul512(d) ==
    StripLeadingZeros(
        [i \in 1..(Len(d) + 3) |->
            (512 * Dg(d, i - 3) + Below9(d, i - 3) \div 1953125) % 10])

\* d + 1
Increment(d) ==
    LET notNine == {i \in 1..Len(d) : d[i] # 9} IN
    IF notNine = {} THEN <<1>> \o [i \in 1..Len(d) |-> 0]
    ELSE [i \in 1..Len(d) |->
            IF i < Max(notNine) THEN d[i]
            ELSE IF i = Max(notNine) THEN d[i] + 1 ELSE 0]

\* d \div 2^27 and whether d % 2^27 is not 0, and the same for 2^108.
Div2To27(d) == Div512(Div512(Div512(d)))
Odd2To27(d) ==
    \/ Mod512(d) # 0
    \/ Mod512(Div512(d)) # 0
    \/ Mod512(Div512(Div512(d))) # 0
Div2To108(d) == Div2To27(Div2To27(Div2To27(Div2To27(d))))
Odd2To108(d) ==
    \/ Odd2To27(d)
    \/ Odd2To27(Div2To27(d))
    \/ Odd2To27(Div2To27(Div2To27(d)))
    \/ Odd2To27(Div2To27(Div2To27(Div2To27(d))))

\* d * 2^27 and d * 2^108.
Mul2To27(d) == Mul512(Mul512(Mul512(d)))
Mul2To108(d) == Mul2To27(Mul2To27(Mul2To27(Mul2To27(d))))

\* d * 2^e
RECURSIVE ShiftLeft(_, _)
ShiftLeft(d, e) ==
    IF d = <<0>> \/ e = 0 THEN d
    ELSE IF e >= 108 THEN ShiftLeft(Mul2To108(d), e - 108)
    ELSE IF e >= 27 THEN ShiftLeft(Mul2To27(d), e - 27)
    ELSE IF e >= 9 THEN ShiftLeft(Mul512(d), e - 9)
    ELSE ShiftLeft(Double(d), e - 1)

\* 2^53, 2^54, 2^63, 2^81 and 2^162.
TwoTo53 == <<9, 0, 0, 7, 1, 9, 9, 2, 5, 4, 7, 4, 0, 9, 9, 2>>
TwoTo54 == <<1, 8, 0, 1, 4, 3, 9, 8, 5, 0, 9, 4, 8, 1, 9, 8, 4>>
TwoTo63 == <<9, 2, 2, 3, 3, 7, 2, 0, 3, 6, 8, 5, 4, 7, 7, 5, 8, 0, 8>>
TwoTo81 ==
    <<2, 4, 1, 7, 8, 5, 1, 6, 3, 9, 2, 2, 9, 2, 5, 8, 3, 4, 9, 4, 1, 2, 3,
      5, 2>>
TwoTo162 ==
    <<5, 8, 4, 6, 0, 0, 6, 5, 4, 9, 3, 2, 3, 6, 1, 1, 6, 7, 2, 8, 1, 4, 7,
      3, 9, 3, 3, 0, 8, 6, 5, 1, 3, 2, 0, 7, 8, 6, 2, 3, 7, 3, 0, 1, 7, 1,
      9, 0, 4>>

\* 2^1024 - 2^970: from here on a number rounds to Infinity.
OverflowFrom ==
    <<1, 7, 9, 7, 6, 9, 3, 1, 3, 4, 8, 6, 2, 3, 1, 5, 8, 0, 7, 9, 3, 7, 2,
      8, 9, 7, 1, 4, 0, 5, 3, 0, 3, 4, 1, 5, 0, 7, 9, 9, 3, 4, 1, 3, 2, 7,
      1, 0, 0, 3, 7, 8, 2, 6, 9, 3, 6, 1, 7, 3, 7, 7, 8, 9, 8, 0, 4, 4, 4,
      9, 6, 8, 2, 9, 2, 7, 6, 4, 7, 5, 0, 9, 4, 6, 6, 4, 9, 0, 1, 7, 9, 7,
      7, 5, 8, 7, 2, 0, 7, 0, 9, 6, 3, 3, 0, 2, 8, 6, 4, 1, 6, 6, 9, 2, 8,
      8, 7, 9, 1, 0, 9, 4, 6, 5, 5, 5, 5, 4, 7, 8, 5, 1, 9, 4, 0, 4, 0, 2,
      6, 3, 0, 6, 5, 7, 4, 8, 8, 6, 7, 1, 5, 0, 5, 8, 2, 0, 6, 8, 1, 9, 0,
      8, 9, 0, 2, 0, 0, 0, 7, 0, 8, 3, 8, 3, 6, 7, 6, 2, 7, 3, 8, 5, 4, 8,
      4, 5, 8, 1, 7, 7, 1, 1, 5, 3, 1, 7, 6, 4, 4, 7, 5, 7, 3, 0, 2, 7, 0,
      0, 6, 9, 8, 5, 5, 5, 7, 1, 3, 6, 6, 9, 5, 9, 6, 2, 2, 8, 4, 2, 9, 1,
      4, 8, 1, 9, 8, 6, 0, 8, 3, 4, 9, 3, 6, 4, 7, 5, 2, 9, 2, 7, 1, 9, 0,
      7, 4, 1, 6, 8, 4, 4, 4, 3, 6, 5, 5, 1, 0, 7, 0, 4, 3, 4, 2, 7, 1, 1,
      5, 5, 9, 6, 9, 9, 5, 0, 8, 0, 9, 3, 0, 4, 2, 8, 8, 0, 1, 7, 7, 9, 0,
      4, 1, 7, 4, 4, 9, 7, 7, 9, 2>>

(***************************************************************************)
(* The Number type: doubles                                                *)
(*                                                                         *)
(* A number is NaN, an infinity, or a sign and the digits of an integer    *)
(* magnitude that a double holds exactly (parseInt returns no fraction).   *)
(* -0 is kept apart from 0.                                                *)
(***************************************************************************)
NaN == [nan |-> TRUE, neg |-> FALSE, inf |-> FALSE, digits |-> <<>>]
Infinity(neg) == [nan |-> FALSE, neg |-> neg, inf |-> TRUE, digits |-> <<>>]
Num(neg, digits) ==
    [nan |-> FALSE, neg |-> neg, inf |-> FALSE, digits |-> digits]

\* A number of at least 2^53 shifted right until it is below 2^54: what is
\* left of it, by how many bits it was shifted, and whether a 1 was shifted
\* out.
RECURSIVE Reduce(_, _, _)
Reduce(d, sticky, shift) ==
    IF ~Less(d, TwoTo162)
    THEN Reduce(Div2To108(d), sticky \/ Odd2To108(d), shift + 108)
    ELSE IF ~Less(d, TwoTo81)
    THEN Reduce(Div2To27(d), sticky \/ Odd2To27(d), shift + 27)
    ELSE IF ~Less(d, TwoTo63)
         THEN Reduce(Div512(d), sticky \/ Mod512(d) # 0, shift + 9)
         ELSE IF ~Less(d, TwoTo54)
              THEN Reduce(Half(d), sticky \/ IsOdd(d), shift + 1)
              ELSE [d |-> d, sticky |-> sticky, shift |-> shift]

\* The 53 leading bits q of a number, rounded by the bit after them and by
\* the bits shifted out before, ties to the even mantissa, times the power
\* of 2 they were shifted by.
RoundMantissa(q, r) ==
    ShiftLeft(IF IsOdd(r.d) /\ (r.sticky \/ IsOdd(q)) THEN Increment(q) ELSE q,
              r.shift + 1)
RoundReduced(r) == RoundMantissa(Half(r.d), r)

\* The magnitude of the double nearest to the natural number d: d itself
\* below 2^53, else its leading bits rounded.  <<>> stands for Infinity.
RoundToDouble(d) ==
    IF Less(d, TwoTo53) THEN d
    ELSE IF ~Less(d, OverflowFrom) THEN <<>>
         ELSE RoundReduced(Reduce(d, FALSE, 0))

\* The number of a sign and a magnitude, and of a sign and the digits read.
Signed(neg, magnitude) ==
    IF magnitude = <<>> THEN Infinity(neg) ELSE Num(neg, magnitude)
ToNumber(neg, d) == Signed(neg, RoundToDouble(d))

(***************************************************************************)
(* parseInt(string, 10)                                                    *)
(***************************************************************************)
\* The digits of the longest prefix of s made of digits of the radix.
DigitPrefix(s) ==
    LET stop == {i \in 1..Len(s) :
                    s[i] \notin DecimalDigits \/ DigitValue(s[i]) >= Radix}
        n == IF stop = {} THEN Len(s) ELSE Min(stop) - 1
    IN  [i \in 1..n |-> DigitValue(s[i])]

\* A parseInt that drops the sign.
ParseIntUnsigned(str) ==
    LET s == IF BlackAt(str, 1) = {} THEN <<>>
             ELSE SubSeq(str, Min(BlackAt(str, 1)), Len(str))
        signed == s # <<>> /\ Head(s) \in {"+", "-"}
        body == IF signed THEN Tail(s) ELSE s
        digits == DigitPrefix(body)
    IN  IF digits = <<>> THEN NaN
        ELSE ToNumber(FALSE, StripLeadingZeros(digits))

\* Leading whitespace is skipped, then a sign, then the digits are read up to
\* the first character that is none; without a digit the result is NaN.
ParseInt(str) ==
    LET s == IF BlackAt(str, 1) = {} THEN <<>>
             ELSE SubSeq(str, Min(BlackAt(str, 1)), Len(str))
        neg == s # <<>> /\ Head(s) = "-"
        signed == s # <<>> /\ Head(s) \in {"+", "-"}
        body == IF signed THEN Tail(s) ELSE s
        digits == DigitPrefix(body)
    IN  IF digits = <<>> THEN NaN
        ELSE ToNumber(neg, StripLeadingZeros(digits))

(***************************************************************************)
(* parseFen                                                                *)
(***************************************************************************)
\* A rank check that lets ranks wider than 8 pass.
RankTooNarrow(fileCount) == fileCount < RankWidth

\* Line 60: the rank does not have exactly 8 squares.
WrongRankWidth(fileCount) == fileCount # RankWidth

\* The inner loop of parsePiecePlacement over the characters of one rank:
\* the rank's cells, or Null at an unexpected character or a width other
\* than 8.
RECURSIVE ScanRank(_, _, _, _)
ScanRank(rank, i, rankArray, fileCount) ==
    IF i > Len(rank)
    THEN IF WrongRankWidth(fileCount) THEN Null ELSE Arr(rankArray)
    ELSE LET char == rank[i] IN
         IF char \in EmptyDigits
         THEN LET emptySquares == DigitValue(char) IN
              ScanRank(rank, i + 1,
                       rankArray \o [j \in 1..emptySquares |-> NullCell],
                       fileCount + emptySquares)
         ELSE IF char \in PieceLetters
              THEN ScanRank(rank, i + 1, Append(rankArray, char), fileCount + 1)
              ELSE Null

\* An outer loop that puts each rank before the ones read so far.
RECURSIVE ScanRanksReversed(_, _, _)
ScanRanksReversed(ranks, i, board) ==
    IF i > Len(ranks) THEN Arr(board)
    ELSE LET rankArray == ScanRank(ranks[i], 1, <<>>, 0) IN
         IF rankArray = Null THEN Null
         ELSE ScanRanksReversed(ranks, i + 1, <<rankArray.rows>> \o board)

\* The outer loop over the ranks, in order; the first bad rank ends it.
RECURSIVE ScanRanks(_, _, _)
ScanRanks(ranks, i, board) ==
    IF i > Len(ranks) THEN Arr(board)
    ELSE LET rankArray == ScanRank(ranks[i], 1, <<>>, 0) IN
         IF rankArray = Null THEN Null
         ELSE ScanRanks(ranks, i + 1, Append(board, rankArray.rows))

ParsePiecePlacement(pp) ==
    LET ranks == SplitChar(pp, "/") IN
    IF Len(ranks) # NumRanks THEN Null ELSE ScanRanks(ranks, 1, <<>>)

\* A type check that lets String objects pass.
NotStringLike(v) == v.type \notin {"string", "object"}

\* Line 14: the argument is not a string.
NotAString(v) == TypeOf(v) # "string"

\* A field count check that lets more than 6 fields pass.
TooFewFields(fields) == Len(fields) < NumFields

\* Line 18: the field count is wrong.
WrongFieldCount(fields) == Len(fields) # NumFields

\* Lines 20-27: the six fields by position.
Destructure(fields) ==
    [piecePlacement |-> fields[1],
     activeColor |-> fields[2],
     castlingAvailability |-> fields[3],
     enPassantTarget |-> fields[4],
     halfmoveClock |-> fields[5],
     fullmoveNumber |-> fields[6]]

\* An active color check that reads the first character only.
InvalidFirstLetter(activeColor) ==
    activeColor = <<>> \/ activeColor[1] \notin {"w", "b"}

\* Line 72: the active color is neither "w" nor "b".
InvalidActiveColor(activeColor) ==
    activeColor # <<"w">> /\ activeColor # <<"b">>

\* A result whose castling and en-passant components are swapped.
MakeResultSwapped(f, board, fen) ==
    [type |-> "object",
     isValid |-> TRUE,
     piecePlacement |-> f.piecePlacement,
     board |-> board,
     activeColor |-> f.activeColor,
     castlingAvailability |-> f.enPassantTarget,
     enPassantTarget |-> f.castlingAvailability,
     halfmoveClock |-> ParseInt(f.halfmoveClock),
     fullmoveNumber |-> ParseInt(f.fullmoveNumber),
     fen |-> fen]

\* Lines 75-85: the object returned on success.
MakeResult(f, board, fen) ==
    [type |-> "object",
     isValid |-> TRUE,
     piecePlacement |-> f.piecePlacement,
     board |-> board,
     activeColor |-> f.activeColor,
     castlingAvailability |-> f.castlingAvailability,
     enPassantTarget |-> f.enPassantTarget,
     halfmoveClock |-> ParseInt(f.halfmoveClock),
     fullmoveNumber |-> ParseInt(f.fullmoveNumber),
     fen |-> fen]

\* A parseFen that also fails when the halfmove clock is no number.
ParseFenStrict(v) ==
    IF NotAString(v) THEN Null
    ELSE LET fields == Fields(v.chars) IN
         IF WrongFieldCount(fields) THEN Null
         ELSE LET f == Destructure(fields)
                  board == ParsePiecePlacement(f.piecePlacement)
              IN  IF board = Null THEN Null
                  ELSE IF InvalidActiveColor(f.activeColor) THEN Null
                       ELSE IF ParseInt(f.halfmoveClock).nan THEN Null
                            ELSE MakeResult(f, board.rows, v.chars)

ParseFen(v) ==
    IF NotAString(v) THEN Null
    ELSE LET fields == Fields(v.chars) IN
         IF WrongFieldCount(fields) THEN Null
         ELSE LET f == Destructure(fields)
                  board == ParsePiecePlacement(f.piecePlacement)
              IN  IF board = Null THEN Null
                  ELSE IF InvalidActiveColor(f.activeColor) THEN Null
                       ELSE MakeResult(f, board.rows, v.chars)

(***************************************************************************)
(* Number to string, Array.prototype.join, and the re-joined FEN           *)
(***************************************************************************)
StripTrailingZeros(d) ==
    LET nonzero == {i \in 1..Len(d) : d[i] # 0} IN
    IF nonzero = {} THEN <<0>> ELSE SubSeq(d, 1, Max(nonzero))

DigitChars(d) == [i \in 1..Len(d) |-> DigitChar(d[i])]

\* The decimal digits of a natural number.
RECURSIVE NatChars(_)
NatChars(k) ==
    IF k < 10 THEN <<DigitChar(k)>>
    ELSE Append(NatChars(k \div 10), DigitChar(k % 10))

\* The first k digits of d and zeros in place of the others, and the next
\* number of that form.
RoundedDown(d, k) == [i \in 1..Len(d) |-> IF i <= k THEN d[i] ELSE 0]
RoundedUp(d, k) ==
    Increment(SubSeq(d, 1, k)) \o [i \in 1..(Len(d) - k) |-> 0]

\* The numbers of k significant digits next to d that are the double d when
\* read back.
ReadBack(d, k) ==
    {c \in {RoundedDown(d, k), RoundedUp(d, k)} : RoundToDouble(c) = d}

\* Whether of the two numbers of k significant digits next to d the lower is
\* nearer, or as near and its last digit even.
NearerDown(d, k) ==
    \/ k = Len(d)
    \/ d[k + 1] < 5
    \/ /\ d[k + 1] = 5
       /\ \A i \in (k + 2)..Len(d) : d[i] = 0
       /\ d[k] % 2 = 0

Nearest(d, k, back, down, up) ==
    IF back = {down} THEN down
    ELSE IF back = {up} THEN up
    ELSE IF NearerDown(d, k) THEN down ELSE up

FewestDigits(d, k) ==
    Nearest(d, k, ReadBack(d, k), RoundedDown(d, k), RoundedUp(d, k))

\* The decimal number String() writes for the double d: of the numbers with
\* the fewest significant digits that read back as d, the nearest to d.
\* Below 2^53 it is d.
Shortest(d) ==
    IF Less(d, TwoTo53) THEN d
    ELSE FewestDigits(d,
            Min({j \in 1..Min({17, Len(d)}) : ReadBack(d, j) # {}}))

\* A number of more than 21 digits in exponent notation.
Mantissa(sig) ==
    IF Len(sig) = 1 THEN DigitChars(sig)
    ELSE <<DigitChar(sig[1]), ".">> \o DigitChars(Tail(sig))
Exponential(written) ==
    Mantissa(StripTrailingZeros(written)) \o <<"e", "+">>
    \o NatChars(Len(written) - 1)

Written(written) ==
    IF Len(written) <= 21 THEN DigitChars(written)
    ELSE Exponential(written)

\* String(n): NaN is "NaN", an infinity "Infinity" with its sign, both zeros
\* are "0", a magnitude below 10^21 is written in full and one from 10^21 on
\* in exponent notation.
NumberToString(n) ==
    IF n.nan THEN <<"N", "a", "N">>
    ELSE IF n.inf
    THEN (IF n.neg THEN <<"-">> ELSE <<>>)
         \o <<"I", "n", "f", "i", "n", "i", "t", "y">>
    ELSE (IF n.neg /\ n.digits # <<0>> THEN <<"-">> ELSE <<>>)
         \o Written(Shortest(n.digits))

\* parts.join(sep)
RECURSIVE Join(_, _)
Join(parts, sep) ==
    IF parts = <<>> THEN <<>>
    ELSE IF Len(parts) = 1 THEN parts[1]
         ELSE parts[1] \o sep \o Join(Tail(parts), sep)

\* The six components of a result joined with single spaces.
Rejoin(r) ==
    Join(<<r.piecePlacement, r.activeColor, r.castlingAvailability,
           r.enPassantTarget, NumberToString(r.halfmoveClock),
           NumberToString(r.fullmoveNumber)>>, <<" ">>)

(***************************************************************************)
(* The inputs                                                              *)
(***************************************************************************)
\* Bounds: how many ranks fewer or more than 8 a piece placement is given,
\* how many fields more than 6 an input is given, and the longest run of
\* whitespace before, between and after the fields.
RankSlack == 1
ExtraFields == 1
MaxPad == 2

StartRanks ==
    <<<<"r", "n", "b", "q", "k", "b", "n", "r">>, <<"p", "p", "p", "p", "p", "p", "p", "p">>, <<"8">>, <<"8">>,
      <<"8">>, <<"8">>, <<"P", "P", "P", "P", "P", "P", "P", "P">>, <<"R", "N", "B", "Q", "K", "B", "N", "R">>>>

ItalianRanks ==
    <<<<"r", "1", "b", "q", "k", "b", "1", "r">>, <<"p", "p", "p", "p", "1", "p", "p", "p">>,
      <<"2", "n", "2", "n", "2">>, <<"4", "p", "3">>,
      <<"2", "B", "1", "P", "3">>, <<"5", "N", "2">>,
      <<"P", "P", "P", "P", "1", "P", "P", "P">>, <<"R", "N", "B", "Q", "K", "2", "R">>>>

BaseRanks == {StartRanks, ItalianRanks}

\* Ranks put in place of one rank of a base: four of width 8, then the digit
\* 9, widths 7 and 9, the empty rank, the digit 0 and a letter that is no
\* piece.
GoodRanks == {<<"8">>, <<"4", "P", "3">>, <<"p", "6", "K">>, <<"7", "1">>}
BadRanks == {<<"9">>, <<"7">>, <<>>, <<"4", "4", "p">>, <<"0", "8">>, <<"x", "7">>, <<"P", "8">>, <<"1", "p", "5">>}
SubRanks == GoodRanks \cup BadRanks

\* The first n ranks of a base, padded with empty ranks beyond its eighth.
RanksOf(base, n) == [i \in 1..n |-> IF i <= Len(base) THEN base[i] ELSE <<"8">>]

Placements ==
    {Join(RanksOf(b, n), <<"/">>) :
        b \in BaseRanks, n \in (NumRanks - RankSlack)..(NumRanks + RankSlack)}
    \cup
    {Join([RanksOf(b, NumRanks) EXCEPT ![i] = r], <<"/">>) :
        b \in BaseRanks, i \in 1..NumRanks, r \in SubRanks}

StartPlacement == Join(StartRanks, <<"/">>)
EmptyPlacement == Join(RanksOf(<<>>, NumRanks), <<"/">>)
NinePlacement == Join([StartRanks EXCEPT ![3] = <<"9">>], <<"/">>)

\* 10^21, the least number String() writes in exponent notation.
Sextillion == [i \in 1..22 |-> IF i = 1 THEN "1" ELSE "0"]

\* 2^53 + 1, the least natural number no double holds.
UnsafeInteger ==
    <<"9", "0", "0", "7", "1", "9", "9", "2", "5", "4", "7", "4", "0", "9",
      "9", "3">>
\* 10^21 - 1, which the nearest double rounds up to 10^21.
Nines == [i \in 1..21 |-> "9"]

\* A number of 20 digits, which its double and String() round to 17.
TwentyDigits ==
    <<"1", "2", "3", "4", "5", "6", "7", "8", "9", "0", "1", "2", "3", "4",
      "5", "6", "7", "8", "9", "0">>
\* 10^309, beyond the doubles.
Overflowing == [i \in 1..310 |-> IF i = 1 THEN "1" ELSE "0"]

ColorTokens == {<<"w">>, <<"b">>, <<"W">>, <<"b", "w">>, <<"x">>}
CastlingTokens == {<<"K", "Q", "k", "q">>, <<"-">>, <<"<", "b", ">">>}
EnPassantTokens == {<<"-">>, <<"e", "3">>}
HalfmoveTokens ==
    {<<"0">>, <<"5", "0">>, <<"-", "5">>, <<"a", "b", "c">>,
     <<"1", "2", "a", "b", "c">>, <<"+", "7">>, <<"-", "0">>,
     <<"0", "0", "7">>, Sextillion, UnsafeInteger, TwentyDigits, Nines,
     <<"-">> \o Overflowing}
FullmoveTokens == {<<"1">>, <<"x">>, Sextillion, Overflowing}

\* Inputs that vary the piece placement and the active color.
PlacementInputs ==
    {Join(<<p, c, <<"K", "Q", "k", "q">>, <<"-">>, <<"0">>, <<"1">>>>, <<" ">>) :
        p \in Placements, c \in {<<"w">>, <<"b">>, <<"x">>}}

\* Inputs that vary the five fields after the piece placement.
TokenInputs ==
    {Join(<<p, c, ca, ep, h, f>>, <<" ">>) :
        p \in {StartPlacement, NinePlacement}, c \in ColorTokens,
        ca \in CastlingTokens, ep \in EnPassantTokens,
        h \in HalfmoveTokens, f \in FullmoveTokens}

\* The runs of blanks and tabs of the lengths lo..hi.
PadChars == {" ", "\t"}
Runs(lo, hi) == UNION {[1..n -> PadChars] : n \in lo..hi}

AllTokens(k) ==
    [i \in 1..k |->
        CASE i = 1 -> EmptyPlacement [] i = 2 -> <<"w">> [] i = 3 -> <<"-">>
          [] i = 4 -> <<"-">> [] i = 5 -> <<"0">> [] i = 6 -> <<"1">>
          [] OTHER -> <<"x">>]

\* Inputs that vary the number of fields and the whitespace around them.
SpacedInputs ==
    {lead \o Join(AllTokens(k), sep) \o trail :
        k \in 0..(NumFields + ExtraFields),
        lead \in Runs(0, MaxPad), sep \in Runs(1, MaxPad),
        trail \in Runs(0, MaxPad)}

\* Inputs that have one whitespace character, each in turn, before, between
\* and after the fields.
SeparatorInputs ==
    {<<c>> \o Join(AllTokens(k), <<c>>) \o <<c>> :
        c \in WhiteSpace, k \in (NumFields - 1)..(NumFields + ExtraFields)}

StringInputs ==
    PlacementInputs \cup TokenInputs \cup SpacedInputs \cup SeparatorInputs

\* Arguments that are no strings: null, undefined, a number, a String object
\* and an array holding a valid FEN.
NonStrings ==
    {Null, JsOther("undefined", <<"u", "n", "d", "e", "f", "i", "n", "e", "d">>), JsOther("number", <<"4", "2">>),
     JsOther("object", Join(AllTokens(NumFields), <<" ">>)),
     Arr(<<Join(AllTokens(NumFields), <<" ">>)>>)}

Inputs == {Str(s) : s \in StringInputs} \cup NonStrings

\* The last four fields a second input is given in place of the first's.
VariantTails ==
    {<<<<"-">>, <<"-">>, <<"0">>, <<"1">>>>,
     <<<<"K", "Q", "k", "q">>, <<"e", "3">>, <<"a", "b", "c">>, <<"x">>>>,
     <<<<"<", "b", ">">>, <<"-">>, <<"-", "5">>, Sextillion>>}

(***************************************************************************)
(* generateBoardHtml and the page                                          *)
(*                                                                         *)
(* An element's content is written as the tree the markup stands for: the  *)
(* chessboard is its ranks, a rank its squares, a square its class, its    *)
(* background color and the symbol it shows.                               *)
(***************************************************************************)
\* pieceUnicodeMap, the symbols by their code points.
PieceUnicodeMap(piece) ==
    CASE piece = "K" -> "U+2654" [] piece = "Q" -> "U+2655"
      [] piece = "R" -> "U+2656" [] piece = "B" -> "U+2657"
      [] piece = "N" -> "U+2658" [] piece = "P" -> "U+2659"
      [] piece = "k" -> "U+265A" [] piece = "q" -> "U+265B"
      [] piece = "r" -> "U+265C" [] piece = "b" -> "U+265D"
      [] piece = "n" -> "U+265E" [] piece = "p" -> "U+265F"

\* piece.toUpperCase() for the piece letters.
ToUpperCase(c) ==
    CASE c = "k" -> "K" [] c = "q" -> "Q" [] c = "r" -> "R"
      [] c = "b" -> "B" [] c = "n" -> "N" [] c = "p" -> "P"
      [] OTHER -> c

LightColor == "#f0d9b5"
DarkColor == "#b58863"

\* One square of the board (lines 107-121); the indices count from 0.
Square(board, rankIndex, fileIndex) ==
    LET piece == board[rankIndex + 1][fileIndex + 1] IN
    [color |-> IF (rankIndex + fileIndex) % 2 = 0 THEN LightColor ELSE DarkColor,
     class |-> IF piece # NullCell
               THEN IF piece = ToUpperCase(piece)
                    THEN "square piece white" ELSE "square piece black"
               ELSE "square empty",
     symbol |-> IF piece # NullCell THEN PieceUnicodeMap(piece) ELSE ""]

GenerateBoardHtml(board) ==
    [class |-> "chessboard",
     ranks |-> [r \in 1..8 |-> [f \in 1..8 |-> Square(board, r - 1, f - 1)]]]

\* The paragraph shown in place of the board at an invalid FEN (line 178).
ErrorPlaceholder == [class |-> "error", ranks |-> <<>>]

\* The two messages of lines 180 and 183, without their diacritics.
InvalidMessage ==
    "Erro: O FEN inserido nao e valido. Verifique o formato e o numero de campos."
FieldCountMessage == "Erro FEN: Esperado 6 campos separados por espaco."

\* JSON.stringify of a number: NaN and the infinities are written null.
JsonNumber(n) == IF n.nan \/ n.inf THEN <<"n", "u", "l", "l">> ELSE NumberToString(n)

\* The output element's content at a valid FEN (lines 170-171).
JsonOutput(r) ==
    [tag |-> "pre",
     piecePlacement |-> r.piecePlacement,
     board |-> r.board,
     activeColor |-> r.activeColor,
     castlingAvailability |-> r.castlingAvailability,
     enPassantTarget |-> r.enPassantTarget,
     halfmoveClock |-> JsonNumber(r.halfmoveClock),
     fullmoveNumber |-> JsonNumber(r.fullmoveNumber),
     fen |-> r.fen]

\* The output element's content at an invalid FEN (lines 180-186).
ErrorOutput(text) ==
    [tag |-> "text",
     message |-> IF Len(Fields(text)) # NumFields
                 THEN FieldCountMessage ELSE InvalidMessage]

\* What the user may have in the input box.
PageInputs ==
    {Join(AllTokens(NumFields), <<" ">>),
     Join(<<StartPlacement, <<"w">>, <<"K", "Q", "k", "q">>, <<"-">>, <<"0">>, <<"1">>>>, <<" ">>),
     Join(<<Join(ItalianRanks, <<"/">>), <<"b">>, <<"K", "Q", "k", "q">>, <<"-">>, <<"a", "b", "c">>, <<"1">>>>,
          <<" ", " ">>),
     <<"\t">> \o Join(AllTokens(NumFields), <<" ">>) \o <<" ">>,
     Join(<<NinePlacement, <<"w">>, <<"K", "Q", "k", "q">>, <<"-">>, <<"0">>, <<"1">>>>, <<" ">>),
     Join(<<StartPlacement, <<"x">>, <<"K", "Q", "k", "q">>, <<"-">>, <<"0">>, <<"1">>>>, <<" ">>),
     Join(AllTokens(NumFields - 1), <<" ">>),
     Join(AllTokens(NumFields + ExtraFields), <<" ">>),
     Join(AllTokens(NumFields), <<"\r">>),
     Join(AllTokens(NumFields), <<"U+00A0">>) \o <<"\n">>,
     <<"a", "\r", "b", " ", "c", " ", "d", " ", "e", " ", "f">>,
     Join(<<EmptyPlacement, <<"w">>, <<"-">>, <<"-">>, Nines, Overflowing>>,
          <<" ">>),
     Join(<<EmptyPlacement, <<"b">>, <<"-">>, <<"-">>, UnsafeInteger,
            <<"-">> \o Overflowing>>, <<" ">>),
     <<>>,
     <<" ">>}

\* The classes the page's markup may give the output element.
MarkupClasses == {"error", "success", "panel"}

\* A handler that leaves the board container alone at an invalid FEN.
HandleFenSubmitStale ==
    LET text == inputValue
        res == ParseFen(Str(text))
        cleared == outputClasses \ {"error", "success"}
    IN  /\ submitted' = text
        /\ IF res # Null /\ res.isValid
           THEN /\ boardContainer' = GenerateBoardHtml(res.board)
                /\ outputContent' = JsonOutput(res)
                /\ outputClasses' = cleared \cup {"success"}
                /\ shownBoard' = TRUE
           ELSE /\ outputContent' = ErrorOutput(text)
                /\ outputClasses' = cleared \cup {"error"}
                /\ UNCHANGED <<boardContainer, shownBoard>>

\* handleFenSubmit (lines 150-191): parse the input box's text and show the
\* board and the result, or the error.
HandleFenSubmit ==
    LET text == inputValue
        res == ParseFen(Str(text))
        cleared == outputClasses \ {"error", "success"}
    IN  /\ submitted' = text
        /\ IF res # Null /\ res.isValid
           THEN /\ boardContainer' = GenerateBoardHtml(res.board)
                /\ outputContent' = JsonOutput(res)
                /\ outputClasses' = cleared \cup {"success"}
                /\ shownBoard' = TRUE
           ELSE /\ boardContainer' = ErrorPlaceholder
                /\ outputContent' = ErrorOutput(text)
                /\ outputClasses' = cleared \cup {"error"}
                /\ UNCHANGED shownBoard

\* The DOMContentLoaded listener (lines 133-144): the first, automatic call
\* of handleFenSubmit.
DomContentLoaded ==
    /\ ~loaded
    /\ loaded' = TRUE
    /\ HandleFenSubmit
    /\ UNCHANGED <<inputValue, parserVars>>

\* The form's submit event (line 141).
Submit ==
    /\ loaded
    /\ HandleFenSubmit
    /\ UNCHANGED <<inputValue, loaded, parserVars>>

\* The user edits the text of the input box.
TypeInput ==
    /\ loaded
    /\ \E text \in PageInputs \ {inputValue} : inputValue' = text
    /\ UNCHANGED <<outputClasses, outputContent, boardContainer, loaded,
                   submitted, shownBoard>>
    /\ UNCHANGED parserVars

(***************************************************************************)
(* The calls of parseFen                                                   *)
(***************************************************************************)
\* parseFen(fenString)
Parse ==
    /\ pc = "call"
    /\ result' = ParseFen(fenString)
    /\ pc' = "parsed"
    /\ UNCHANGED <<fenString, second, result2, pageVars>>

\* The result's components are joined with single spaces and parsed again.
Reparse ==
    /\ pc = "parsed"
    /\ result # Null
    /\ second' = Str(Rejoin(result))
    /\ result2' = ParseFen(second')
    /\ pc' = "rejoined"
    /\ UNCHANGED <<fenString, result, pageVars>>

\* parseFen on a second input with the same first two fields and other
\* last four.
ParseVariant ==
    /\ pc = "parsed"
    /\ fenString.type = "string"
    /\ Len(Fields(fenString.chars)) = NumFields
    /\ \E tail \in VariantTails :
          LET fields == Fields(fenString.chars) IN
          second' = Str(Join(<<fields[1], fields[2]>> \o tail, <<" ">>))
    /\ result2' = ParseFen(second')
    /\ pc' = "variant"
    /\ UNCHANGED <<fenString, result, pageVars>>

(***************************************************************************)
(* The specifications                                                      *)
(***************************************************************************)
NoCall ==
    /\ result = Null
    /\ second = Null
    /\ result2 = Null

PageAtRest ==
    /\ inputValue = <<>>
    /\ outputClasses = {}
    /\ outputContent = [tag |-> "none"]
    /\ boardContainer = [class |-> "none", ranks |-> <<>>]
    /\ loaded = FALSE
    /\ submitted = <<>>
    /\ shownBoard = FALSE

\* The calls of parseFen on every input.
Init ==
    /\ fenString \in Inputs
    /\ pc = "call"
    /\ NoCall
    /\ PageAtRest

Next == Parse \/ Reparse \/ ParseVariant

Spec == Init /\ [][Next]_vars

\* The page before DOMContentLoaded: the input box and the output element's
\* classes are as the markup gives them.
PageInit ==
    /\ inputValue \in PageInputs
    /\ outputClasses \in SUBSET MarkupClasses
    /\ outputContent = [tag |-> "none"]
    /\ boardContainer = [class |-> "none", ranks |-> <<>>]
    /\ loaded = FALSE
    /\ submitted = <<>>
    /\ shownBoard = FALSE
    /\ fenString = Null
    /\ pc = "none"
    /\ NoCall

PageNext == DomContentLoaded \/ Submit \/ TypeInput

PageSpec == PageInit /\ [][PageNext]_vars

(***************************************************************************)
(* The vocabulary of the properties, stated on the input's characters and  *)
(* apart from the parser's own definitions                                 *)
(***************************************************************************)
Blank(c) ==
    \/ c \in {" ", "\t", "\n", "\r", "\f", "U+000B"}
    \/ c \in {"U+00A0", "U+1680", "U+202F", "U+205F", "U+3000", "U+FEFF"}
    \/ c \in {"U+2000", "U+2001", "U+2002", "U+2003", "U+2004", "U+2005",
              "U+2006", "U+2007", "U+2008", "U+2009", "U+200A"}
    \/ c \in {"U+2028", "U+2029"}

\* The positions where a field starts: a character that is no whitespace,
\* first of the string or after whitespace.
FieldStarts(s) ==
    {i \in 1..Len(s) : ~Blank(s[i]) /\ (i = 1 \/ Blank(s[i - 1]))}

\* The field count of the trimmed string split on whitespace runs; a string
\* with no field to show still splits into one, empty, field.
FieldCount(s) ==
    IF FieldStarts(s) = {} THEN 1 ELSE Cardinality(FieldStarts(s))

\* The k-th least member of a set of numbers.
Nth(S, k) == CHOOSE i \in S : Cardinality({j \in S : j <= i}) = k

\* The k-th field of a string with at least k fields.
FieldAt(s, k) ==
    LET start == Nth(FieldStarts(s), k)
        stops == {j \in start..Len(s) : Blank(s[j])}
    IN  SubSeq(s, start, IF stops = {} THEN Len(s) ELSE Min(stops) - 1)

Slashes(p) == {i \in 1..Len(p) : p[i] = "/"}

\* The number of '/'-separated ranks of a piece placement, and the k-th.
RankCount(p) == Cardinality(Slashes(p)) + 1
RankAt(p, k) ==
    LET lo == IF k = 1 THEN 0 ELSE Nth(Slashes(p), k - 1)
        hi == IF k = RankCount(p) THEN Len(p) + 1 ELSE Nth(Slashes(p), k)
    IN  SubSeq(p, lo + 1, hi - 1)

\* The squares a legal character stands for; 0 for any other character.
SquaresOf(c) ==
    CASE c = "1" -> 1 [] c = "2" -> 2 [] c = "3" -> 3 [] c = "4" -> 4
      [] c = "5" -> 5 [] c = "6" -> 6 [] c = "7" -> 7 [] c = "8" -> 8
      [] c \in {"p", "n", "b", "r", "q", "k"} -> 1
      [] c \in {"P", "N", "B", "R", "Q", "K"} -> 1
      [] OTHER -> 0

IsEmptyRun(c) == SquaresOf(c) > 0 /\ c \notin {"p", "n", "b", "r", "q", "k",
                                               "P", "N", "B", "R", "Q", "K"}

\* The squares the first k characters of a rank stand for.
WidthUpTo(r, k) ==
    Cardinality({ij \in (1..k) \X (1..8) : ij[2] <= SquaresOf(r[ij[1]])})

WellFormedRank(r) ==
    /\ \A i \in 1..Len(r) : SquaresOf(r[i]) > 0
    /\ WidthUpTo(r, Len(r)) = 8

WellFormedPlacement(p) ==
    /\ RankCount(p) = 8
    /\ \A k \in 1..8 : WellFormedRank(RankAt(p, k))

IsColor(c) == c = <<"w">> \/ c = <<"b">>

\* A call was made and has returned, on a string.
Returned == pc # "call" /\ pc # "none"
OnString == fenString.type = "string"
SixFields == OnString /\ FieldCount(fenString.chars) = 6

Succeeded(r) == r # Null

(***************************************************************************)
(* C1                                                                      *)
(***************************************************************************)
\* C1: on a string of exactly 6 fields whose first field has 8 ranks of legal
\* characters each summing to 8 squares and whose second field is "w" or
\* "b", parseFen succeeds and the board has 8 ranks of 8 cells.
ValidInputSucceeds ==
    (/\ Returned
     /\ SixFields
     /\ WellFormedPlacement(FieldAt(fenString.chars, 1))
     /\ IsColor(FieldAt(fenString.chars, 2)))
    => /\ Succeeded(result)
       /\ Len(result.board) = 8
       /\ \A k \in 1..8 : Len(result.board[k]) = 8

\* A valid input with kings on the board was parsed.
ValidInputParsed ==
    /\ pc = "parsed"
    /\ SixFields
    /\ WellFormedPlacement(FieldAt(fenString.chars, 1))
    /\ IsColor(FieldAt(fenString.chars, 2))
    /\ Succeeded(result)
    /\ \E k \in 1..8 : \E j \in 1..8 : result.board[k][j] = "K"

(***************************************************************************)
(* C2                                                                      *)
(***************************************************************************)
\* C2: on a string whose field count is not 6, parseFen returns null.
WrongFieldCountFails ==
    (Returned /\ OnString /\ FieldCount(fenString.chars) # 6)
    => result = Null

\* An input of 7 fields, the first 6 of them a valid FEN, was rejected.
SevenFieldsRejected ==
    /\ pc = "parsed"
    /\ OnString
    /\ FieldCount(fenString.chars) = 7
    /\ WellFormedPlacement(FieldAt(fenString.chars, 1))
    /\ IsColor(FieldAt(fenString.chars, 2))
    /\ result = Null

(***************************************************************************)
(* C3                                                                      *)
(***************************************************************************)
\* C3: on a string of 6 fields whose piece placement has a rank count other
\* than 8, a character that is not legal or a rank not summing to 8 squares,
\* parseFen returns null.
MalformedPlacementFails ==
    (/\ Returned
     /\ SixFields
     /\ ~WellFormedPlacement(FieldAt(fenString.chars, 1)))
    => result = Null

\* A placement of 8 ranks of legal characters, one of them 9 squares wide,
\* was rejected although the active color is good.
WideRankRejected ==
    /\ pc = "parsed"
    /\ SixFields
    /\ IsColor(FieldAt(fenString.chars, 2))
    /\ LET p == FieldAt(fenString.chars, 1) IN
       /\ RankCount(p) = 8
       /\ \A i \in 1..Len(p) : p[i] = "/" \/ SquaresOf(p[i]) > 0
       /\ \E k \in 1..8 : WidthUpTo(RankAt(p, k), Len(RankAt(p, k))) = 9
    /\ result = Null

(***************************************************************************)
(* C4                                                                      *)
(***************************************************************************)
\* C4: parseFen fails unless the second field is exactly "w" or "b", and
\* every result's activeColor is one of the two.
ActiveColorIsWOrB ==
    /\ (Returned /\ SixFields /\ ~IsColor(FieldAt(fenString.chars, 2)))
       => result = Null
    /\ (Returned /\ Succeeded(result)) => IsColor(result.activeColor)

\* A well-formed placement with an active color that starts with a color
\* letter but is not one ("bw") was rejected.
LongColorRejected ==
    /\ pc = "parsed"
    /\ SixFields
    /\ WellFormedPlacement(FieldAt(fenString.chars, 1))
    /\ FieldAt(fenString.chars, 2) = <<"b", "w">>
    /\ result = Null

(***************************************************************************)
(* C5                                                                      *)
(***************************************************************************)
\* The cells of `row` are the expansion of the rank string r: the character
\* at i fills the cells after those of the characters before it, a digit d
\* with d null cells and a letter with itself.
ExpandsTo(r, row) ==
    /\ Len(row) = WidthUpTo(r, Len(r))
    /\ \A i \in 1..Len(r) :
          LET off == WidthUpTo(r, i - 1) IN
          IF IsEmptyRun(r[i])
          THEN \A j \in 1..SquaresOf(r[i]) : row[off + j] = NullCell
          ELSE row[off + 1] = r[i]

\* C5: on success the board is the rank-by-rank, left-to-right expansion of
\* the piece-placement field, the ranks in the field's order.
BoardIsExpansion ==
    (Returned /\ Succeeded(result))
    => LET p == FieldAt(fenString.chars, 1) IN
       /\ Len(result.board) = RankCount(p)
       /\ \A k \in 1..RankCount(p) : ExpandsTo(RankAt(p, k), result.board[k])

\* A board whose first and last ranks differ and hold both pieces and empty
\* runs was built.
MixedBoardBuilt ==
    /\ pc = "parsed"
    /\ Succeeded(result)
    /\ result.board[1] # result.board[8]
    /\ \E j \in 1..8 : result.board[1][j] = NullCell
    /\ \E j \in 1..8 : result.board[1][j] # NullCell
    /\ \E j \in 1..8 : result.board[8][j] = NullCell
    /\ \E j \in 1..8 : result.board[8][j] # NullCell

(***************************************************************************)
(* C6                                                                      *)
(***************************************************************************)
IsNumber(n) == DOMAIN n = {"nan", "neg", "inf", "digits"}

\* Every component of the result is there and holds a value; the source text
\* is the argument.
FullyPopulated(r, v) ==
    /\ DOMAIN r = {"type", "isValid", "piecePlacement", "board", "activeColor",
                   "castlingAvailability", "enPassantTarget", "halfmoveClock",
                   "fullmoveNumber", "fen"}
    /\ r.isValid = TRUE
    /\ r.piecePlacement # <<>>
    /\ Len(r.board) = 8
    /\ r.activeColor # <<>>
    /\ r.castlingAvailability # <<>>
    /\ r.enPassantTarget # <<>>
    /\ IsNumber(r.halfmoveClock)
    /\ IsNumber(r.fullmoveNumber)
    /\ r.fen = v.chars

\* C6: parseFen returns on every argument; what it returns is null or a
\* fully populated result, and null whenever the argument is no string.
AllOrNothing ==
    /\ pc = "call" => LET r == ParseFen(fenString) IN
                      r = Null \/ FullyPopulated(r, fenString)
    /\ Returned => (result = Null \/ FullyPopulated(result, fenString))
    /\ (Returned /\ ~OnString) => result = Null

\* A String object holding a valid FEN was rejected.
StringObjectRejected ==
    /\ pc = "parsed"
    /\ fenString.type = "object"
    /\ FieldCount(fenString.chars) = 6
    /\ WellFormedPlacement(FieldAt(fenString.chars, 1))
    /\ result = Null

(***************************************************************************)
(* C7                                                                      *)
(***************************************************************************)
\* Two numbers are the same value: both NaN, or the same digits and the same
\* sign (0 and -0 are the same).
SameNumber(a, b) ==
    \/ a.nan /\ b.nan
    \/ /\ ~a.nan /\ ~b.nan
       /\ a.inf = b.inf
       /\ a.digits = b.digits
       /\ (a.neg = b.neg \/ a.digits = <<0>>)

Equivalent(r1, r2) ==
    /\ r1.board = r2.board
    /\ r1.activeColor = r2.activeColor
    /\ r1.castlingAvailability = r2.castlingAvailability
    /\ r1.enPassantTarget = r2.enPassantTarget
    /\ SameNumber(r1.halfmoveClock, r2.halfmoveClock)
    /\ SameNumber(r1.fullmoveNumber, r2.fullmoveNumber)

\* NaN or a finite magnitude below 10^21.
BelowSextillion(n) == n.nan \/ (~n.inf /\ Len(n.digits) <= 21)

\* C7 as stated: the re-joined components of every result parse to an
\* equivalent result.
RoundTrip ==
    pc = "rejoined" => (Succeeded(result2) /\ Equivalent(result, result2))

\* C7 as amended: they do when both clocks of the result are NaN or finite
\* and below 10^21 in magnitude.
RoundTripBelowSextillion ==
    (/\ pc = "rejoined"
     /\ BelowSextillion(result.halfmoveClock)
     /\ BelowSextillion(result.fullmoveNumber))
    => (Succeeded(result2) /\ Equivalent(result, result2))

\* An input with whitespace before, after and in runs between its fields
\* made the round trip to another string and an equivalent result.
PaddedRoundTrip ==
    /\ pc = "rejoined"
    /\ Blank(fenString.chars[1])
    /\ Blank(fenString.chars[Len(fenString.chars)])
    /\ \E i \in 1..(Len(fenString.chars) - 2) :
          /\ ~Blank(fenString.chars[i])
          /\ Blank(fenString.chars[i + 1])
          /\ Blank(fenString.chars[i + 2])
    /\ second.chars # fenString.chars
    /\ Succeeded(result2)
    /\ Equivalent(result, result2)

(***************************************************************************)
(* C8                                                                      *)
(***************************************************************************)
IsDecimal(c) == c \in {"0", "1", "2", "3", "4", "5", "6", "7", "8", "9"}

\* Where the digits of a clock token start: after a sign, if it has one.
DigitsFrom(tok) == IF tok[1] = "+" \/ tok[1] = "-" THEN 2 ELSE 1

\* The token has a decimal digit where its digits start.
StartsNumeric(tok) ==
    Len(tok) >= DigitsFrom(tok) /\ IsDecimal(tok[DigitsFrom(tok)])

\* Where the token's leading run of digits ends.
RunEnd(tok) ==
    LET stops == {i \in DigitsFrom(tok)..Len(tok) : ~IsDecimal(tok[i])} IN
    IF stops = {} THEN Len(tok) ELSE Min(stops) - 1

\* Every digit of the token's leading run of digits is 0.
RunIsZero(tok) == \A i \in DigitsFrom(tok)..RunEnd(tok) : tok[i] = "0"

\* How many digits the run has from its first digit that is not 0.
SignificantDigits(tok) ==
    LET nonzero == {i \in DigitsFrom(tok)..RunEnd(tok) : tok[i] # "0"} IN
    IF nonzero = {} THEN 0 ELSE RunEnd(tok) - Min(nonzero) + 1

Negative(n) == ~n.nan /\ n.neg /\ n.digits # <<0>>
NonNegativeInteger(n) == ~n.nan /\ ~n.inf /\ ~Negative(n)

\* The number is what the token's sign and leading digits say: NaN without a
\* leading digit, else negative exactly when the token starts with "-" and
\* its digits are not all 0, and infinite only when the digits from the
\* first that is not 0 are 309 or more and always when they are 310 or more.
ClockFollowsToken(tok, n) ==
    /\ n.nan <=> ~StartsNumeric(tok)
    /\ StartsNumeric(tok)
          => /\ Negative(n) <=> (tok[1] = "-" /\ ~RunIsZero(tok))
             /\ n.inf => SignificantDigits(tok) >= 309
             /\ SignificantDigits(tok) >= 310 => n.inf

\* C8 as stated: both clocks of every result are non-negative integers.
ClocksNonNegative ==
    (Returned /\ Succeeded(result))
    => /\ NonNegativeInteger(result.halfmoveClock)
       /\ NonNegativeInteger(result.fullmoveNumber)

\* C8 as amended: each clock of a result is NaN when its token has no leading
\* digit after an optional sign; otherwise it is an integer, or an infinity
\* when the token has 310 or more significant digits (and for some tokens of
\* 309), negative when the token starts with "-" and its digits are not all
\* 0 and non-negative otherwise.
ClocksFollowTokens ==
    (Returned /\ Succeeded(result))
    => /\ ClockFollowsToken(FieldAt(fenString.chars, 5), result.halfmoveClock)
       /\ ClockFollowsToken(FieldAt(fenString.chars, 6), result.fullmoveNumber)

\* A result with a negative halfmove clock and a fullmove number that is
\* NaN was returned.
NegativeAndNaNClocks ==
    /\ pc = "parsed"
    /\ Succeeded(result)
    /\ ~result.halfmoveClock.nan
    /\ result.halfmoveClock.neg
    /\ result.halfmoveClock.digits = <<5>>
    /\ result.fullmoveNumber.nan

(***************************************************************************)
(* C9                                                                      *)
(***************************************************************************)
\* The two inputs have 6 fields each and the same first two.
AgreeOnPlacementAndColor(s1, s2) ==
    /\ FieldCount(s1) = 6
    /\ FieldCount(s2) = 6
    /\ FieldAt(s1, 1) = FieldAt(s2, 1)
    /\ FieldAt(s1, 2) = FieldAt(s2, 2)

PassedThrough(s, r) ==
    /\ r.castlingAvailability = FieldAt(s, 3)
    /\ r.enPassantTarget = FieldAt(s, 4)

\* C9: two inputs of 6 fields that agree on the first two both succeed or
\* both fail, whatever their last four fields, and a result's castling and
\* en-passant components are the input's tokens.
OutcomeIgnoresLastFields ==
    (pc = "variant" /\ AgreeOnPlacementAndColor(fenString.chars, second.chars))
    => /\ Succeeded(result) <=> Succeeded(result2)
       /\ Succeeded(result) => PassedThrough(fenString.chars, result)
       /\ Succeeded(result2) => PassedThrough(second.chars, result2)

\* Two inputs that differ in their last fields succeeded, the second with
\* clocks that are no numbers.
VariantWithTextClocks ==
    /\ pc = "variant"
    /\ AgreeOnPlacementAndColor(fenString.chars, second.chars)
    /\ FieldAt(fenString.chars, 5) # FieldAt(second.chars, 5)
    /\ FieldAt(fenString.chars, 3) # FieldAt(second.chars, 3)
    /\ Succeeded(result)
    /\ Succeeded(result2)
    /\ result2.halfmoveClock.nan
    /\ ~result.halfmoveClock.nan

(***************************************************************************)
(* C10                                                                     *)
(***************************************************************************)
\* The square shows the cell: nothing for an empty one, else the piece's
\* symbol, white for an upper-case letter and black for a lower-case one.
Shows(square, cell) ==
    IF cell = NullCell
    THEN square.symbol = "" /\ square.class = "square empty"
    ELSE /\ square.symbol = PieceUnicodeMap(cell)
         /\ square.class = IF cell \in {"P", "N", "B", "R", "Q", "K"}
                           THEN "square piece white"
                           ELSE "square piece black"

\* C10: once the page is loaded the display is that of the last submitted
\* text: the output element has exactly one of the classes success and
\* error, success exactly when the text parses, and the board container
\* shows that parse's board, or the error placeholder when there is none.
DisplayShowsLatest ==
    loaded =>
        LET latest == ParseFen(Str(submitted)) IN
        /\ outputClasses \cap {"success", "error"}
              = IF Succeeded(latest) THEN {"success"} ELSE {"error"}
        /\ IF Succeeded(latest)
           THEN /\ boardContainer.class = "chessboard"
                /\ Len(boardContainer.ranks) = 8
                /\ \A r \in 1..8 : \A f \in 1..8 :
                      Shows(boardContainer.ranks[r][f], latest.board[r][f])
           ELSE boardContainer = ErrorPlaceholder

\* After a board was shown, an invalid text was submitted and the
\* placeholder took the board's place.
BoardReplacedByError ==
    /\ loaded
    /\ shownBoard
    /\ ParseFen(Str(submitted)) = Null
    /\ boardContainer = ErrorPlaceholder
    /\ "error" \in outputClasses
    /\ "success" \notin outputClasses

====
